---------------------------- MODULE Spec2Model ----------------------------
(***************************************************************************)
(* Model of src/src/server.js: an Express application serving one          *)
(* in-memory collection, `books`, through six routes.                      *)
(*                                                                         *)
(* Strings the code computes with (the path parameter req.params.id and    *)
(* the self links built by template literals) are sequences of one-        *)
(* character strings, so that Number(...) and `${...}` are modelled by     *)
(* what they do.                                                           *)
(*                                                                         *)
(* Request bodies are what express.json() (line 12) leaves in req.body: an *)
(* object, any of whose fields may be missing, or undefined for a request  *)
(* from which no JSON body was parsed.  The sources do not fix the Express *)
(* version that decides between undefined and an empty object there, so    *)
(* both an object with missing fields and undefined are inputs.  Reading a *)
(* property of undefined throws, and the handler then makes no call on     *)
(* res; what Express answers to the client after that is not modelled.     *)
(***************************************************************************)
EXTENDS Integers, Sequences, FiniteSets, TLC

VARIABLES
    books,  \* the collection: a sequence of [id, title, author]
    req,    \* the request served last
    res,    \* the response to it
    hist    \* history variable: every record ever inserted, in insertion
            \* order, with whether it is still live

vars == <<books, req, res, hist>>

(***************************************************************************)
(* Bounds and inputs                                                       *)
(***************************************************************************)

\* Number of records created by POST /books in one run.
MaxCreates == 2

\* JavaScript's undefined: the value of a missing field.
Undefined == "undefined"

Str1 == <<"1">>
Str2 == <<"2">>
Str3 == <<"3">>
Str4 == <<"4">>
Str01 == <<"0", "1">>
StrBlank3 == <<" ", "3">>
Str1a == <<"1", "a">>
StrAbc == <<"a", "b", "c">>
Str1Dot0 == <<"1", ".", "0">>
Str0x2 == <<"0", "x", "2">>
StrTab1 == <<"\t", "1">>
Str999 == <<"9", "9", "9">>
\* 1 + 10^-20, which is nearer to the double 1 than to any other.
StrNear1 ==
    <<"1", ".", "0", "0", "0", "0", "0", "0", "0", "0", "0", "0",
      "0", "0", "0", "0", "0", "0", "0", "0", "0", "0", "0", "1">>

\* Values of req.params.id (URL-decoded by the router, never empty).
PathIds ==
    {Str1, Str2, Str3, Str4, Str01, StrBlank3, Str1a, StrAbc, Str1Dot0,
     Str0x2, StrTab1, Str999, StrNear1}

\* Values of req.body: {title, author}; {id, title} with an empty title
\* and no author; and undefined, when no JSON body was parsed.
BodyXY == [title |-> "X", author |-> "Y"]
BodyWithId == [id |-> 7, title |-> ""]
UndefinedBody == [undefined |-> TRUE]

Bodies == {BodyXY, BodyWithId, UndefinedBody}

\* The TypeError that req.body.title throws when req.body is undefined.
TypeError == "TypeError: Cannot read properties of undefined (reading 'title')"

\* req.body.f for an object req.body: undefined when the field is missing.
Field(body, f) == IF f \in DOMAIN body THEN body[f] ELSE Undefined

(***************************************************************************)
(* Naturals of any size                                                    *)
(*                                                                         *)
(* The value of a numeric string does not fit a machine integer before it  *)
(* is rounded to a double, and a double's mantissa has 53 bits.  A natural *)
(* is a sequence of limbs in 0..Base-1, least significant first, without a *)
(* most significant zero limb; <<>> is 0.                                  *)
(***************************************************************************)

Base == 1000

\* The element of a set of one element.  It gives a name to a value that
\* is used more than once: {F(x) : x \in {e}} computes e once.
The(S) == CHOOSE x \in S : TRUE

Max(x, y) == IF x >= y THEN x ELSE y

Min(x, y) == IF x <= y THEN x ELSE y

Limb(a, i) == IF i \in 1..Len(a) THEN a[i] ELSE 0

\* The place of the most significant limb of a that is not 0, 0 for none.
Top(a) ==
    IF \E i \in 1..Len(a) : a[i] # 0
    THEN CHOOSE i \in 1..Len(a) :
             a[i] # 0 /\ \A j \in (i + 1)..Len(a) : a[j] = 0
    ELSE 0

\* a without its most significant zero limbs.
Norm(limbs) == The({SubSeq(a, 1, Top(a)) : a \in {limbs}})

RECURSIVE FromInt(_)
FromInt(v) == IF v = 0 THEN <<>> ELSE <<v % Base>> \o FromInt(v \div Base)

RECURSIVE ToInt(_)
ToInt(a) == IF a = <<>> THEN 0 ELSE a[1] + Base * ToInt(Tail(a))

\* The carry into limb i of the sums s: 1 when the nearest lower sum that
\* is not Base - 1 overflows.
CarryIn(s, i) ==
    IF /\ \E d \in 1..(i - 1) : s[i - d] # Base - 1
       /\ s[i - CHOOSE d \in 1..(i - 1) :
                    /\ s[i - d] # Base - 1
                    /\ \A l \in 1..(d - 1) : s[i - l] = Base - 1] >= Base
    THEN 1
    ELSE 0

\* The natural whose limbs are the sums before the carries, each at most
\* 2 * Base - 2.
Carry(sums) ==
    The({Norm([i \in 1..(Len(s) + 1) |->
                  (Limb(s, i) + CarryIn(s, i)) % Base]) : s \in {sums}})

\* x + y
Add(x, y) ==
    The({Carry([i \in 1..Max(Len(a), Len(b)) |-> Limb(a, i) + Limb(b, i)]) :
            a \in {x}, b \in {y}})

\* The borrow from limb i of the differences d: 1 when the nearest lower
\* difference that is not 0 is negative.
BorrowIn(d, i) ==
    IF /\ \E k \in 1..(i - 1) : d[i - k] # 0
       /\ d[i - CHOOSE k \in 1..(i - 1) :
                    /\ d[i - k] # 0
                    /\ \A l \in 1..(k - 1) : d[i - l] = 0] < 0
    THEN 1
    ELSE 0

\* The natural whose limbs are the differences before the borrows, each
\* above -Base.
Borrow(diffs) ==
    The({Norm([i \in 1..Len(d) |-> (d[i] - BorrowIn(d, i) + Base) % Base]) :
            d \in {diffs}})

\* x - y for x >= y
Sub(x, y) ==
    The({Borrow([i \in 1..Len(a) |-> a[i] - Limb(b, i)]) :
            a \in {x}, b \in {y}})

\* x < y
Less(x, y) ==
    \E a \in {x}, b \in {y} :
        \/ Len(a) < Len(b)
        \/ /\ Len(a) = Len(b)
           /\ \E i \in 1..Len(a) :
                  a[i] < b[i] /\ \A j \in (i + 1)..Len(a) : a[j] = b[j]

\* x <= y
Leq(x, y) == \E a \in {x}, b \in {y} : a = b \/ Less(a, b)

\* x * Base^n
Shift(x, n) ==
    The({IF a = <<>> THEN <<>> ELSE [i \in 1..n |-> 0] \o a : a \in {x}})

RECURSIVE SumSeq(_)
SumSeq(terms) ==
    The({IF Len(s) = 0 THEN 0
         ELSE IF Len(s) = 1 THEN s[1]
         ELSE SumSeq(SubSeq(s, 1, Len(s) \div 2))
              + SumSeq(SubSeq(s, Len(s) \div 2 + 1, Len(s))) : s \in {terms}})

\* The sum of the products a[i] * b[k + 1 - i] for i in lo..hi.
Column(a, b, k, lo, hi) ==
    SumSeq([t \in 1..(hi - lo + 1) |-> a[lo + t - 1] * b[k - lo - t + 2]])

\* The limbs of a * b before the carries: column k sums the products of
\* the limbs of a and b whose places add up to k.
Columns(a, b) ==
    [k \in 1..(Len(a) + Len(b) - 1) |->
        Column(a, b, k, Max(1, k - Len(b) + 1), Min(k, Len(a)))]

\* The same natural as the columns, with what each has above Base moved
\* into the next one.
Reduce(cols) ==
    The({[k \in 1..(Len(c) + 1) |->
             (Limb(c, k) % Base) + (Limb(c, k - 1) \div Base)] : c \in {cols}})

\* x * y: a column is below 2^31, so the limbs are at most Base + 2 after
\* three reductions.
Mul(x, y) ==
    The({Carry(Reduce(Reduce(Reduce(Columns(a, b))))) : a \in {x}, b \in {y}})

Square(x) == The({Mul(a, a) : a \in {x}})

\* x \div 2
Half(x) ==
    The({Norm([i \in 1..Len(a) |->
                  (a[i] + Base * (Limb(a, i + 1) % 2)) \div 2]) : a \in {x}})

IsOdd(x) == \E a \in {x} : a # <<>> /\ a[1] % 2 = 1

\* b^n for b at most 5, by repeated squaring.
RECURSIVE Pow(_, _)
Pow(b, n) ==
    IF n <= 13 THEN FromInt(b^n)
    ELSE Mul(Square(Pow(b, n \div 2)), <<b^(n % 2)>>)

Pow10(n) == Shift(<<10^(n % 3)>>, n \div 3)

\* a * 2^k, a itself for k <= 0.
TimesPow2(a, k) == IF k > 0 THEN Mul(a, Pow(2, k)) ELSE a

\* a * 10^(3 * z) / 2^k for the z limbs that hold k decimal digits: its
\* limbs from z + 1 on are a \div 2^k, and its first z limbs are 0 exactly
\* when 2^k divides a.
Scaled(a, k) == Mul(Mul(a, Pow(5, k)), <<10^((3 - (k % 3)) % 3)>>)

(***************************************************************************)
(* Number(string) and `${number}`                                          *)
(***************************************************************************)

DigitChars == <<"0", "1", "2", "3", "4", "5", "6", "7", "8", "9">>

IsDigit(c) == \E d \in 1..Len(DigitChars) : DigitChars[d] = c

DigitVal(c) == (CHOOSE d \in 1..Len(DigitChars) : DigitChars[d] = c) - 1

\* The digits of the radix literals, in lower and in upper case.
RadixCharsLower ==
    <<"0", "1", "2", "3", "4", "5", "6", "7", "8", "9",
      "a", "b", "c", "d", "e", "f">>
RadixCharsUpper ==
    <<"0", "1", "2", "3", "4", "5", "6", "7", "8", "9",
      "A", "B", "C", "D", "E", "F">>

\* Whether c is a digit of the given base (2, 8 or 16).
IsRadixDigit(c, base) ==
    \E d \in 1..base : RadixCharsLower[d] = c \/ RadixCharsUpper[d] = c

RadixDigitVal(c) ==
    (CHOOSE d \in 1..Len(RadixCharsLower) :
         RadixCharsLower[d] = c \/ RadixCharsUpper[d] = c) - 1

\* StrWhiteSpaceChar: WhiteSpace and LineTerminator.  Tab, line feed,
\* carriage return and form feed are written as escapes; the code points
\* that are not printable ASCII are written by name.
WhiteSpaceChars ==
    {" ", "\t", "\n", "\r", "\f", "U+000B", "U+00A0", "U+FEFF", "U+1680",
     "U+2000", "U+2001", "U+2002", "U+2003", "U+2004", "U+2005", "U+2006",
     "U+2007", "U+2008", "U+2009", "U+200A", "U+2028", "U+2029", "U+202F",
     "U+205F", "U+3000"}

IsBlank(c) == c \in WhiteSpaceChars

\* s without its leading and trailing white space.
Trim(s) ==
    IF \A i \in 1..Len(s) : IsBlank(s[i]) THEN <<>>
    ELSE SubSeq(s,
                CHOOSE i \in 1..Len(s) :
                    ~IsBlank(s[i]) /\ \A j \in 1..(i - 1) : IsBlank(s[j]),
                CHOOSE i \in 1..Len(s) :
                    ~IsBlank(s[i]) /\ \A j \in (i + 1)..Len(s) : IsBlank(s[j]))

\* s without its leading "0" characters.
StripZeros(s) ==
    IF \A i \in 1..Len(s) : s[i] = "0" THEN <<>>
    ELSE SubSeq(s,
                CHOOSE i \in 1..Len(s) :
                    s[i] # "0" /\ \A j \in 1..(i - 1) : s[j] = "0",
                Len(s))

\* The limb at place i of the natural with the n decimal digits s: the
\* digits n - 3 * i + 1 .. n - 3 * (i - 1), those there are.
DigitsLimb(s, n, i) ==
    SumSeq([t \in 1..3 |->
               IF n - 3 * (i - 1) - (t - 1) >= 1
               THEN 10^(t - 1) * DigitVal(s[n - 3 * (i - 1) - (t - 1)])
               ELSE 0])

\* The value of a string of decimal digits, as a natural of any size.
FromDigits(digits) ==
    The({Norm([i \in 1..((Len(s) + 2) \div 3) |-> DigitsLimb(s, Len(s), i)]) :
            s \in {digits}})

\* The value of a string of digits of base 2^bits, as a natural of any size.
RECURSIVE FromRadixDigits(_, _)
FromRadixDigits(digits, bits) ==
    The({IF Len(s) = 0 THEN <<>>
         ELSE IF Len(s) = 1 THEN FromInt(RadixDigitVal(s[1]))
         ELSE Add(Mul(FromRadixDigits(SubSeq(s, 1, Len(s) - Len(s) \div 2),
                                      bits),
                      Pow(2, (Len(s) \div 2) * bits)),
                  FromRadixDigits(SubSeq(s, Len(s) - Len(s) \div 2 + 1, Len(s)),
                                  bits)) : s \in {digits}})

\* The value of a string of at most six decimal digits.
RECURSIVE DigitsValue(_)
DigitsValue(s) ==
    IF s = <<>> THEN 0
    ELSE 10 * DigitsValue(SubSeq(s, 1, Len(s) - 1)) + DigitVal(s[Len(s)])

\* The value of the digits of an exponent.  One of more than six digits is
\* taken as 999999: a path is shorter than the 16 KiB Node allows for the
\* head of a request, so the literal is out of the doubles' range either way.
ExponentValue(s) ==
    IF Len(StripZeros(s)) > 6 THEN 999999 ELSE DigitsValue(StripZeros(s))

(***************************************************************************)
(* A JavaScript number is NaN, an infinity, or the finite double           *)
(* sign * mant * 2^exp, as IEEE 754 stores it: mant is a natural in        *)
(* [2^52, 2^53) and exp is in -1074..971, or mant is below 2^52 and exp is *)
(* -1074 (the subnormals); the zeros, which carry a sign too, have mant    *)
(* <<>> and exp 0.  `small` says that the value is an integer of magnitude *)
(* below 2^31, and `int` is then that integer.                             *)
(***************************************************************************)

NaN ==
    [kind |-> "NaN", sign |-> 1, mant |-> <<>>, exp |-> 0,
     small |-> FALSE, int |-> 0]

Infinity(sign) ==
    [kind |-> IF sign < 0 THEN "-Infinity" ELSE "Infinity",
     sign |-> sign, mant |-> <<>>, exp |-> 0, small |-> FALSE, int |-> 0]

Zero(sign) ==
    [kind |-> "finite", sign |-> sign, mant |-> <<>>, exp |-> 0,
     small |-> TRUE, int |-> 0]

\* The largest integer below 2^31.
MaxInt == 2147483647

\* Whether p, which is mant * 2^exp with z more limbs for the fraction,
\* is an integer of at most MaxInt.
IsSmall(exp, p, z) ==
    /\ exp \in -52..-1
    /\ \A i \in 1..z : Limb(p, i) = 0
    /\ Leq(SubSeq(p, z + 1, Len(p)), FromInt(MaxInt))

\* The double sign * mant * 2^exp for mant above 0, given scaled =
\* Scaled(mant, -exp) when exp is in -52..-1: from 2^52 on (exp >= 0) a
\* double is no small integer, and below 2^-52 a mantissa is below 1.
FiniteFrom(sign, mant, exp, scaled) ==
    The({[kind |-> "finite", sign |-> sign, mant |-> mant, exp |-> exp,
          small |-> small,
          int |-> IF small
                  THEN sign * ToInt(SubSeq(p, (2 - exp) \div 3 + 1, Len(p)))
                  ELSE 0] :
            p \in {scaled}, small \in {IsSmall(exp, scaled, (2 - exp) \div 3)}})

\* The double sign * m * 2^exp, for m above 0.
Finite(sign, m, exp) ==
    The({FiniteFrom(sign, mant, exp,
                    Scaled(mant, IF exp \in -52..-1 THEN -exp ELSE 0)) :
            mant \in {m}})

\* num / den >= 2^e
AtLeastPow2(num, den, e) == Leq(TimesPow2(den, e), TimesPow2(num, -e))

\* The largest e in lo..hi-1 with num / den >= 2^e, given that lo is one
\* and hi is not.
RECURSIVE Log2Search(_, _, _, _)
Log2Search(num, den, lo, hi) ==
    IF hi - lo <= 1 THEN lo
    ELSE The({IF AtLeastPow2(num, den, mid)
              THEN Log2Search(num, den, mid, hi)
              ELSE Log2Search(num, den, lo, mid) :
                 mid \in {(lo + hi) \div 2}})

\* The e with 2^e <= num / den < 2^(e + 1), for num and den above 0: a
\* natural of n limbs is in [2^(9 * (n - 1)), 2^(10 * n)).
Log2(num, den) ==
    Log2Search(num, den, 9 * (Len(num) - 1) - 10 * Len(den),
               10 * Len(num) - 9 * (Len(den) - 1))

\* One step of the long division by m: bit i of the quotient is 1 when
\* m * 2^i is at most what is left.
DivStep(st, m, i) ==
    The({IF Leq(d, st.r)
         THEN [q |-> Add(st.q, Pow(2, i)), r |-> Sub(st.r, d)]
         ELSE st : d \in {Mul(m, Pow(2, i))}})

\* The steps of the long division by m for the bits from hi down to lo,
\* from the state start: [q |-> start.q + start.r \div m, r |-> start.r % m]
\* for lo = 0 and start.r < m * 2^(hi + 1).
RECURSIVE DivBits(_, _, _, _)
DivBits(start, m, hi, lo) ==
    The({IF hi = lo THEN DivStep(st, m, hi)
         ELSE The({DivBits(half, m, (hi + lo) \div 2, lo) :
                      half \in {DivBits(st, m, hi, (hi + lo) \div 2 + 1)}}) :
            st \in {start}})

\* The double sign * m * 2^ulp for a mantissa m that a carry may have made
\* 2^53: that is 2^52 in the next unit, and an infinity past the largest.
Carried(sign, m, ulp) ==
    The({IF mant # Pow(2, 53) THEN Finite(sign, mant, ulp)
         ELSE IF ulp = 971 THEN Infinity(sign)
         ELSE Finite(sign, Half(mant), ulp + 1) : mant \in {m}})

\* Whether the quotient q of a division by m rounds up, given the double
\* of the remainder: the remainder is above the half of m, or it is the
\* half of m and q is odd.
RoundsUp(m, q, double) ==
    \E twice \in {double} : Less(m, twice) \/ (twice = m /\ IsOdd(q))

\* The double sign * (n / m) * 2^ulp, for the quotient and the remainder
\* of n by m: the quotient rounded to the nearest natural, ties to even.
RoundQuotient(sign, ulp, m, quotrem) ==
    The({IF RoundsUp(m, qr.q, Add(qr.r, qr.r))
         THEN Carried(sign, Add(qr.q, <<1>>), ulp)
         ELSE IF qr.q = <<>> THEN Zero(sign)
         ELSE Finite(sign, qr.q, ulp) : qr \in {quotrem}})

\* The double nearest to sign * (x / y) * 2^ulp, for x / y < 2^53.
RoundRatio(sign, ulp, x, y) ==
    The({RoundQuotient(sign, ulp, m, DivBits([q |-> <<>>, r |-> n], m, 52, 0)) :
            n \in {x}, m \in {y}})

\* The double nearest to sign * num / den in units of 2^unit.
RoundAt(sign, num, den, unit) ==
    The({IF ulp > 971 THEN Infinity(sign)
         ELSE RoundRatio(sign, ulp, TimesPow2(num, -ulp), TimesPow2(den, ulp)) :
            ulp \in {unit}})

\* The double nearest to sign * x / y, ties to the even mantissa, for
\* 10^-324 <= x / y < 10^309: the mantissa is x / y in units of 2^ulp,
\* where ulp leaves it 53 bits, or is -1074 for a subnormal.
RoundToDouble(sign, x, y) ==
    The({RoundAt(sign, num, den, Max(Log2(num, den) - 52, -1074)) :
            num \in {x}, den \in {y}})

\* The first index of s holding a character of C, 0 when there is none.
IndexOf(s, C) ==
    IF \E i \in 1..Len(s) : s[i] \in C
    THEN CHOOSE i \in 1..Len(s) :
             s[i] \in C /\ \A j \in 1..(i - 1) : s[j] \notin C
    ELSE 0

AllDigits(s) == \A i \in 1..Len(s) : IsDigit(s[i])

InfinityChars == <<"I", "n", "f", "i", "n", "i", "t", "y">>

\* The bits per digit of a NonDecimalIntegerLiteral prefix (0x, 0o, 0b), 0
\* for none.
RadixBits(t) ==
    IF Len(t) < 2 \/ t[1] # "0" THEN 0
    ELSE IF t[2] \in {"x", "X"} THEN 4
    ELSE IF t[2] \in {"o", "O"} THEN 3
    ELSE IF t[2] \in {"b", "B"} THEN 1
    ELSE 0

\* The digits of a radix literal: its value rounded to a double.
RadixLiteral(digits, bits) ==
    LET sd == StripZeros(digits)
    IN  IF sd = <<>> THEN Zero(1)
        ELSE IF (Len(sd) - 1) * bits >= 1024 THEN Infinity(1)
        ELSE RoundToDouble(1, FromRadixDigits(sd, bits), <<1>>)

\* StrUnsignedDecimalLiteral u with the given sign: Infinity, or digits
\* with an optional fraction and an optional exponent, rounded to a double.
\* With sd the digits from the first that is not 0, the value is in
\* [10^(mag - 1), 10^mag): an infinity from 10^309 on, a zero below 10^-324.
DecimalLiteral(sign, u) ==
    LET e == IndexOf(u, {"e", "E"})
        mant == IF e = 0 THEN u ELSE SubSeq(u, 1, e - 1)
        expo == IF e = 0 THEN <<>> ELSE SubSeq(u, e + 1, Len(u))
        expSigned == expo # <<>> /\ expo[1] \in {"+", "-"}
        expDigits == IF expSigned THEN Tail(expo) ELSE expo
        expOk == e = 0 \/ (expDigits # <<>> /\ AllDigits(expDigits))
        dot == IndexOf(mant, {"."})
        ip == IF dot = 0 THEN mant ELSE SubSeq(mant, 1, dot - 1)
        fp == IF dot = 0 THEN <<>> ELSE SubSeq(mant, dot + 1, Len(mant))
        mantOk == AllDigits(ip) /\ AllDigits(fp) /\ (ip # <<>> \/ fp # <<>>)
    IN  IF u = InfinityChars THEN Infinity(sign)
        ELSE IF ~(mantOk /\ expOk) THEN NaN
        ELSE LET expVal == (IF expSigned /\ expo[1] = "-" THEN -1 ELSE 1)
                           * ExponentValue(expDigits)
                 k == expVal - Len(fp)
                 sd == StripZeros(ip \o fp)
                 mag == Len(sd) + k
             IN  IF sd = <<>> THEN Zero(sign)
                 ELSE IF mag >= 310 THEN Infinity(sign)
                 ELSE IF mag <= -324 THEN Zero(sign)
                 ELSE RoundToDouble(sign,
                                    Mul(FromDigits(sd), Pow10(Max(k, 0))),
                                    Pow10(Max(-k, 0)))

\* Number(s), by the StringNumericLiteral grammar: white space trimmed, ""
\* is 0, an unsigned 0x/0o/0b literal, or a signed decimal literal;
\* anything else is NaN.  The value is rounded to the nearest double, as
\* V8 does whatever the number of digits.
Number(s) ==
    LET t == Trim(s)
        bits == RadixBits(t)
        rdigits == SubSeq(t, 3, Len(t))
        signed == t # <<>> /\ t[1] \in {"+", "-"}
    IN  IF t = <<>> THEN Zero(1)
        ELSE IF bits # 0
        THEN IF rdigits # <<>>
                /\ \A i \in 1..Len(rdigits) : IsRadixDigit(rdigits[i], 2^bits)
             THEN RadixLiteral(rdigits, bits)
             ELSE NaN
        ELSE DecimalLiteral(IF t[1] = "-" THEN -1 ELSE 1,
                            IF signed THEN Tail(t) ELSE t)

\* Number(req.params.id) for each modelled path, computed once.
PathNumber == [p \in PathIds |-> Number(p)]

\* id === n for an integer id: false for NaN, an infinity or a fraction.
\* An id is below 2^31 in magnitude, as every integer here.
StrictEq(id, n) == n.kind = "finite" /\ n.small /\ id = n.int

RECURSIVE NatToStr(_)
NatToStr(n) ==
    IF n < 10 THEN <<DigitChars[n + 1]>>
    ELSE NatToStr(n \div 10) \o <<DigitChars[(n % 10) + 1]>>

\* `${n}` for an integer n.
NumToStr(n) == IF n < 0 THEN <<"-">> \o NatToStr(-n) ELSE NatToStr(n)

BooksPath == <<"/", "b", "o", "o", "k", "s">>

\* `/books/${x}` with x already a string.
BookLink(x) == BooksPath \o <<"/">> \o x

(***************************************************************************)
(* The collection                                                          *)
(***************************************************************************)

SeedBooks ==
    << [id |-> 1, title |-> "Book1", author |-> "Author1"],
       [id |-> 2, title |-> "Book2", author |-> "Author2"] >>

\* undefined where a record is expected (the result of a find that fails).
NoBook == [undefined |-> TRUE]

\* books.find((b) => b.id === n): the first match, undefined when none.
Find(bs, n) ==
    IF \E i \in 1..Len(bs) : StrictEq(bs[i].id, n)
    THEN bs[CHOOSE i \in 1..Len(bs) :
                /\ StrictEq(bs[i].id, n)
                /\ \A j \in 1..(i - 1) : ~StrictEq(bs[j].id, n)]
    ELSE NoBook

\* Mutant of FindIndex: the search starts at the second record.
FindIndexSkipFirst(bs, n) ==
    IF \E i \in 2..Len(bs) : StrictEq(bs[i].id, n)
    THEN (CHOOSE i \in 2..Len(bs) :
              /\ StrictEq(bs[i].id, n)
              /\ \A j \in 2..(i - 1) : ~StrictEq(bs[j].id, n)) - 1
    ELSE -1

\* books.findIndex((b) => b.id === n): 0-based, -1 when nothing matches.
FindIndex(bs, n) ==
    IF \E i \in 1..Len(bs) : StrictEq(bs[i].id, n)
    THEN (CHOOSE i \in 1..Len(bs) :
              /\ StrictEq(bs[i].id, n)
              /\ \A j \in 1..(i - 1) : ~StrictEq(bs[j].id, n)) - 1
    ELSE -1

\* books[index] for a 0-based index.
At(bs, index) == bs[index + 1]

\* Mutant of NewId: books.length + 1.
NewIdFromLength(bs) == Len(bs) + 1

\* Mutant of NewId: the smallest positive id not in use (gaps are refilled).
NewIdFillGap(bs) ==
    CHOOSE k \in 1..(Len(bs) + 1) :
        /\ \A i \in 1..Len(bs) : bs[i].id # k
        /\ \A m \in 1..(k - 1) : \E i \in 1..Len(bs) : bs[i].id = m

\* books.length ? books[books.length - 1].id + 1 : 1
NewId(bs) == IF Len(bs) # 0 THEN At(bs, Len(bs) - 1).id + 1 ELSE 1

\* Mutant of Push: books.unshift(rec).
PushFront(bs, rec) == <<rec>> \o bs

\* books.push(rec)
Push(bs, rec) == Append(bs, rec)

\* Mutant of Splice: books.slice(index, 1), which leaves books as it is.
SpliceNoop(bs, index) == bs

\* Mutant of Splice: books.splice(index), which removes the tail too.
SpliceToEnd(bs, index) == SubSeq(bs, 1, index)

\* books.splice(index, 1)
Splice(bs, index) == SubSeq(bs, 1, index) \o SubSeq(bs, index + 2, Len(bs))

\* Mutant of PutRecord: the id is taken from the body when it has one.
PutRecordBodyId(path, body) ==
    [id |-> IF "id" \in DOMAIN body THEN body.id ELSE PathNumber[path].int,
     title |-> Field(body, "title"),
     author |-> Field(body, "author")]

\* Mutant of PutRecord: title and author swapped.
PutRecordSwapped(path, body) ==
    [id |-> PathNumber[path].int,
     title |-> Field(body, "author"),
     author |-> Field(body, "title")]

\* { id: Number(req.params.id), title: req.body.title, author: req.body.author }
PutRecord(path, body) ==
    [id |-> PathNumber[path].int,
     title |-> Field(body, "title"),
     author |-> Field(body, "author")]

\* Mutant of BooksWithLinks: the self link is built from the array index.
BooksWithLinksByIndex(bs) ==
    [i \in 1..Len(bs) |->
        [id |-> bs[i].id, title |-> bs[i].title, author |-> bs[i].author,
         links |-> [self |-> BookLink(NumToStr(i - 1))]]]

\* books.map((book) => ({ ...book, links: { self: `/books/${book.id}` } }))
BooksWithLinks(bs) ==
    [i \in 1..Len(bs) |->
        [id |-> bs[i].id, title |-> bs[i].title, author |-> bs[i].author,
         links |-> [self |-> BookLink(NumToStr(bs[i].id))]]]

(***************************************************************************)
(* Requests and responses                                                  *)
(***************************************************************************)

NoPath == <<>>
NoBody == <<>>

Request(route, path, body) == [route |-> route, path |-> path, body |-> body]

\* res.status(s).send()
Empty(status) ==
    [status |-> status, type |-> "none", cache |-> "none", body |-> NoBody]

\* res.status(s).json(body)
Json(status, body) ==
    [status |-> status, type |-> "application/json", cache |-> "none",
     body |-> body]

Init ==
    /\ books = SeedBooks
    /\ req = Request("none", NoPath, NoBody)
    /\ res = Empty(0)
    /\ hist = [i \in 1..Len(SeedBooks) |-> [id |-> SeedBooks[i].id, live |-> TRUE]]

\* app.get("/books")
List ==
    /\ req' = Request("GET /books", NoPath, NoBody)
    /\ res' = [Json(200, [data |-> BooksWithLinks(books),
                          links |-> [self |-> BooksPath]])
                 EXCEPT !.cache = "public, max-age=60"]
    /\ UNCHANGED <<books, hist>>

\* The response of app.get("/books/:id") on collection bs.
GetResponse(bs, path) ==
    LET book == Find(bs, PathNumber[path])
    IN  IF book = NoBook THEN Empty(404)
        ELSE Json(200, [data |-> book,
                        links |-> [self |-> BookLink(NumToStr(book.id)),
                                   collection |-> BooksPath]])

\* app.get("/books/:id")
Get(path) ==
    /\ req' = Request("GET /books/:id", path, NoBody)
    /\ res' = GetResponse(books, path)
    /\ UNCHANGED <<books, hist>>

\* The handler threw before any call on res: no status, no body.
Throw(error) ==
    [status |-> 0, type |-> "none", cache |-> "none", body |-> NoBody,
     thrown |-> error]

\* app.post("/books"): req.body.title (line 76) throws on an undefined
\* body, before books.push.
Create(body) ==
    /\ req' = Request("POST /books", NoPath, body)
    /\ IF body = UndefinedBody
       THEN /\ res' = Throw(TypeError)
            /\ UNCHANGED <<books, hist>>
       ELSE /\ Len(hist) - Len(SeedBooks) < MaxCreates
            /\ LET newId == NewId(books)
                   newBook == [id |-> newId,
                               title |-> Field(body, "title"),
                               author |-> Field(body, "author")]
               IN  /\ books' = Push(books, newBook)
                   /\ res' = Json(201, [data |-> newBook,
                                        links |-> [self |->
                                                     BookLink(NumToStr(newId))]])
                   /\ hist' = Append(hist, [id |-> newId, live |-> TRUE])

\* app.put("/books/:id"): the 404 of line 87 comes before the body is read;
\* req.body.title (line 91) throws on an undefined body, before the
\* assignment to books[index].
Update(path, body) ==
    /\ req' = Request("PUT /books/:id", path, body)
    /\ LET index == FindIndex(books, PathNumber[path])
       IN  IF index = -1
           THEN /\ res' = Empty(404)
                /\ UNCHANGED <<books, hist>>
           ELSE IF body = UndefinedBody
           THEN /\ res' = Throw(TypeError)
                /\ UNCHANGED <<books, hist>>
           ELSE /\ books' = [books EXCEPT ![index + 1] = PutRecord(path, body)]
                /\ res' = Json(200, [data |-> At(books', index),
                                     links |-> [self |-> BookLink(path)]])
                /\ UNCHANGED hist

\* app.delete("/books/:id")
Delete(path) ==
    /\ req' = Request("DELETE /books/:id", path, NoBody)
    /\ LET n == PathNumber[path]
           index == FindIndex(books, n)
       IN  IF index = -1
           THEN /\ res' = Empty(404)
                /\ UNCHANGED <<books, hist>>
           ELSE /\ books' = Splice(books, index)
                /\ res' = Empty(204)
                /\ hist' = [i \in 1..Len(hist) |->
                              IF hist[i].live /\ StrictEq(hist[i].id, n)
                              THEN [hist[i] EXCEPT !.live = FALSE]
                              ELSE hist[i]]

ScriptText == "console.log(\"Hello from code on demand!\")"

\* app.get("/script")
Script ==
    /\ req' = Request("GET /script", NoPath, NoBody)
    /\ res' = [status |-> 200, type |-> "application/javascript",
               cache |-> "none", body |-> ScriptText]
    /\ UNCHANGED <<books, hist>>

Next ==
    \/ List
    \/ \E path \in PathIds : Get(path)
    \/ \E body \in Bodies : Create(body)
    \/ \E path \in PathIds, body \in Bodies : Update(path, body)
    \/ \E path \in PathIds : Delete(path)
    \/ Script

Spec == Init /\ [][Next]_vars

(***************************************************************************)
(* Properties                                                              *)
(***************************************************************************)

RouteGetOne == "GET /books/:id"
RoutePost == "POST /books"
RoutePut == "PUT /books/:id"
RouteDelete == "DELETE /books/:id"
RouteList == "GET /books"
RouteScript == "GET /script"

\* The ids of the records of bs.
Ids(bs) == {bs[i].id : i \in 1..Len(bs)}

\* The largest element of a non-empty set of integers.
MaxOf(S) == CHOOSE m \in S : \A k \in S : k <= m

\* Whether some record of bs has the numeric value of path as its id.
Matches(bs, path) ==
    \E i \in 1..Len(bs) :
        /\ PathNumber[path].kind = "finite"
        /\ PathNumber[path].small
        /\ bs[i].id = PathNumber[path].int

\* The number of POST /books requests served so far.
NCreated == Len(hist) - Len(SeedBooks)

\* No DELETE has removed a record so far.
NoDeleteYet == \A i \in 1..Len(hist) : hist[i].live

\* C1: in every reachable state no two records of the collection have the
\* same id.
C1_UniqueIds ==
    \A i, j \in 1..Len(books) : i # j => books[i].id # books[j].id

\* C1 witness: a Create has reassigned the id of a deleted record, and the
\* collection holds several records.
C1_Witness ==
    /\ req.route = RoutePost
    /\ res.status = 201
    /\ Len(books) >= 2
    /\ \E i \in 1..(Len(hist) - 1) :
          ~hist[i].live /\ hist[i].id = hist[Len(hist)].id

\* C2 as stated: a Create never assigns the id of a record that a Delete
\* removed earlier in the run.
C2_Original ==
    (req.route = RoutePost /\ res.status = 201) =>
        \A i \in 1..(Len(hist) - 1) :
            ~hist[i].live => hist[i].id # res.body.data.id

\* C2 amended: a Create assigns the id k of a deleted record only when every
\* other record of the collection has an id below k; an id at or below the
\* id of a live record is never reassigned.
C2_Amended ==
    (req.route = RoutePost /\ res.status = 201) =>
        \A i \in 1..(Len(hist) - 1) :
            (~hist[i].live /\ hist[i].id = res.body.data.id) =>
                \A j \in 1..(Len(books) - 1) : books[j].id < res.body.data.id

\* C2 witness: a Create has just reassigned the id of a deleted record while
\* another record is live.
C2_Witness ==
    /\ req.route = RoutePost
    /\ res.status = 201
    /\ Len(books) >= 2
    /\ \E i \in 1..(Len(hist) - 1) :
          ~hist[i].live /\ hist[i].id = res.body.data.id

\* C3: a Create, that is a POST /books with a body, appends exactly one
\* record at the end of the collection, whose id is the maximum id of the
\* collection before plus one, or 1 when the collection was empty: the last
\* id plus one is the maximum id plus one.
C3_CreateStep ==
    (req'.route = RoutePost /\ req'.body # UndefinedBody) =>
        /\ Len(books') = Len(books) + 1
        /\ SubSeq(books', 1, Len(books)) = books
        /\ books'[Len(books')] = res'.body.data
        /\ res'.body.data.id =
              IF books = <<>> THEN 1 ELSE MaxOf(Ids(books)) + 1

C3_CreateAppendsMaxPlusOne == [][C3_CreateStep]_vars

\* C3 witness: from the seed data, Delete of record 1 followed by Create
\* has appended a record with id 3 after record 2.
C3_Witness ==
    /\ req.route = RoutePost
    /\ res.status = 201
    /\ res.body.data.id = 3
    /\ Len(hist) = 3
    /\ ~hist[1].live
    /\ Len(books) = 2
    /\ books[1] = SeedBooks[2]
    /\ books[2] = res.body.data

\* C4 as stated: with no Delete so far, the n-th created record has id n.
C4_Original ==
    (req.route = RoutePost /\ res.status = 201 /\ NoDeleteYet) =>
        res.body.data.id = NCreated

\* C4 amended: with no Delete so far, the n-th created record has id n + 2,
\* the seed holding ids 1 and 2.
C4_Amended ==
    (req.route = RoutePost /\ res.status = 201 /\ NoDeleteYet) =>
        res.body.data.id = SeedBooks[Len(SeedBooks)].id + NCreated

\* C4 witness: the second Create of a run without Delete has been served.
C4_Witness ==
    /\ req.route = RoutePost
    /\ res.status = 201
    /\ NoDeleteYet
    /\ NCreated = 2
    /\ res.body.data.id = 4

\* C5: for a request other than a POST or PUT from which no body was
\* parsed, the status is 200, 201, 204 or 404; Get, Update and Delete answer
\* 404 exactly when the numeric value of the path is the id of no record,
\* then with an empty body and the collection unchanged; List, Create and
\* Script never answer with an error, whatever the object in the body.
C5_Step ==
    /\ req'.body # UndefinedBody => res'.status \in {200, 201, 204, 404}
    /\ req'.route \in {RouteGetOne, RoutePut, RouteDelete} =>
          /\ res'.status = 404 <=> ~Matches(books, req'.path)
          /\ res'.status = 404 => (res' = Empty(404) /\ books' = books)
    /\ (req'.route \in {RouteList, RoutePost, RouteScript}
          /\ req'.body # UndefinedBody) =>
          res'.status \in {200, 201}

C5_NotFoundOnly == [][C5_Step]_vars

\* C5 witness: an Update whose path does not parse as a number, with a body
\* that has no author, has been answered 404 with an empty body after a
\* Create whose body had no author either was answered 201.
C5_Witness ==
    /\ req.route = RoutePut
    /\ req.path = Str1a
    /\ req.body = BodyWithId
    /\ PathNumber[req.path].kind = "NaN"
    /\ res = Empty(404)
    /\ \E i \in 1..Len(books) :
          books[i].title = "" /\ books[i].author = Undefined

\* C6: after a successful Update, Get of the same path returns the record at
\* that id with the id it had before, and the title and author of the body.
C6_Step ==
    (req'.route = RoutePut /\ res'.status = 200) =>
        \E i \in 1..Len(books) :
            /\ StrictEq(books[i].id, PathNumber[req'.path])
            /\ GetResponse(books', req'.path).status = 200
            /\ GetResponse(books', req'.path).body.data =
                  [id |-> books[i].id,
                   title |-> Field(req'.body, "title"),
                   author |-> Field(req'.body, "author")]

C6_UpdateThenGet == [][C6_Step]_vars

\* C6 witness: an Update whose body carries its own id has succeeded.
C6_Witness ==
    /\ req.route = RoutePut
    /\ res.status = 200
    /\ req.body = BodyWithId
    /\ req.path = Str2

\* C7: after a successful Delete, Get of the same path is answered 404 and
\* no record of the collection has that id.
C7_DeleteThenGet ==
    (req.route = RouteDelete /\ res.status = 204) =>
        /\ GetResponse(books, req.path) = Empty(404)
        /\ PathNumber[req.path].int \notin Ids(books)

\* C7 witness: a Delete has succeeded and left a record in the collection.
C7_Witness ==
    /\ req.route = RouteDelete
    /\ res.status = 204
    /\ req.path = Str1
    /\ Len(books) >= 1

\* C8: a successful Delete removes the one record whose id matches; the
\* records before it and after it are unchanged and keep their order.
C8_Step ==
    (req'.route = RouteDelete /\ res'.status = 204) =>
        \E k \in 1..Len(books) :
            /\ StrictEq(books[k].id, PathNumber[req'.path])
            /\ Len(books') = Len(books) - 1
            /\ \A i \in 1..(k - 1) : books'[i] = books[i]
            /\ \A i \in k..Len(books') : books'[i] = books[i + 1]

C8_DeleteRemovesOne == [][C8_Step]_vars

\* C8 witness: a Delete has removed the middle record of three.
C8_Witness ==
    /\ req.route = RouteDelete
    /\ res.status = 204
    /\ Len(books) = 2
    /\ books[1].id = 1
    /\ books[2].id = 3

\* The records ever inserted that are still live, in insertion order.
LiveHistory == SelectSeq(hist, LAMBDA h : h.live)

\* C9: List answers 200 with the live records in insertion order, each with
\* the self link /books/{id} of its own id, and leaves the collection as it
\* is.
C9_Step ==
    req'.route = RouteList =>
        /\ books' = books
        /\ res'.status = 200
        /\ Len(res'.body.data) = Len(LiveHistory)
        /\ \A i \in 1..Len(LiveHistory) :
              /\ res'.body.data[i].id = LiveHistory[i].id
              /\ res'.body.data[i].title = books[i].title
              /\ res'.body.data[i].author = books[i].author
              /\ res'.body.data[i].links.self =
                    BooksPath \o <<"/">> \o NumToStr(LiveHistory[i].id)

C9_ListInsertionOrder == [][C9_Step]_vars

\* C9 witness: List has been served after a Delete, a Create and an Update.
C9_Witness ==
    /\ req.route = RouteList
    /\ Len(hist) > Len(SeedBooks)
    /\ ~NoDeleteYet
    /\ Len(books) >= 2
    /\ \E i \in 1..Len(books) : books[i].title = "X"

\* C10 as stated: the self link of a successful Update is the self link Get
\* returns for the updated record.
C10_UpdateSelfLink ==
    (req.route = RoutePut /\ res.status = 200) =>
        res.body.links.self = GetResponse(books, req.path).body.links.self

=============================================================================
